---- MODULE Spec2Model ----
(***************************************************************************)
(* Method / constant completion of the language server                     *)
(* (main/lsp/requests/completion.cc): ancestor linearization, candidate    *)
(* search through the type algebra, dispatch-chain merging, ranking and    *)
(* sort keys, and the lexical-scope constant finder.                       *)
(***************************************************************************)
EXTENDS Integers, Sequences, FiniteSets, TLC

\* ------------------------------------------------------------------ bounds
\* longest list of mixed-in modules of one class
MaxMixins == 2
\* number of member symbols of the whole symbol table
MaxMembers == 3
\* number of links (main plus secondaries) of a dispatch result
MaxChain == 2
\* rank indices tried on each side of the widths of interest
KeyWindow == 30

\* ----------------------------------------------------------------- symbols
Root == "Root"
NoSymbol == "NoSymbol"
ClassSyms == {"A", "B", "C"}
ModuleSyms == {"M", "N"}
Syms == ClassSyms \cup ModuleSyms
AllSyms == Syms \cup {Root}

\* Position of a symbol in the symbol table; a superclass is entered before
\* its subclasses, which keeps every superclass chain acyclic.
SymRank == [s \in AllSyms |->
              CASE s = Root -> 0
                [] s = "A" -> 1 [] s = "B" -> 2 [] s = "C" -> 3
                [] s = "N" -> 4 [] s = "M" -> 5]

SeqsUpTo(S, n) == UNION {[1..k -> S] : k \in 0..n}

VARIABLES
    superClass,      \* Symbol::superClass() of every class/module, or NoSymbol
    mixins,          \* Symbol::mixins() of every class/module
    linearized,      \* symbols with isClassOrModuleLinearizationComputed()
    owner,           \* Symbol::owner (lexical owner) of every class/module
    members,         \* Symbol::members() that are not classes: set of records
    prefix,          \* the text typed at the query site
    dispatchResult,  \* the core::DispatchResult chain: link 1 is main
    op,              \* the operation that ran last
    recvSym,         \* the class symbol given to the operation
    recvType,        \* the type given to the operation
    callArg,         \* the dispatch result as it was when the call started
    acc,             \* result of ancestors
    similar,         \* result of similarMethods* / allSimilarMethods
    deduped,         \* the vector deduped of handleTextDocumentCompletion
    items,           \* the completion items of the response
    processed,       \* the owners visited by findSimilarConstantOrIdent
    sortIdx,         \* the sortIdx given to getCompletionItem
    fault            \* the ENFORCE that fired, or "none"

vars == <<superClass, mixins, linearized, owner, members, prefix,
          dispatchResult, op, recvSym, recvType, callArg, acc, similar,
          deduped, items, processed, sortIdx, fault>>

gsVars == <<superClass, mixins, linearized, owner, members>>

\* -------------------------------------------------------- ancestors (13-33)
\* ENFORCE(sym.data(gs)->isClassOrModuleLinearizationComputed()) of every
\* symbol the recursion visits.
RECURSIVE ancestorsEnforceFails(_)
ancestorsEnforceFails(sym) ==
    \/ sym \notin linearized
    \/ /\ superClass[sym] # NoSymbol
       /\ ancestorsEnforceFails(superClass[sym])

\* a linearizer that also expands the mixins of every mixin
RECURSIVE ancestorsImplExpanding(_, _)
ancestorsImplExpanding(sym, acc0) ==
    LET RECURSIVE expand(_, _)
        expand(ms, a) ==
            IF ms = <<>> THEN a
            ELSE expand(Tail(ms), Append(a, Head(ms)) \o mixins[Head(ms)])
        acc1 == expand(mixins[sym], Append(acc0, sym))
    IN  IF superClass[sym] # NoSymbol
        THEN ancestorsImplExpanding(superClass[sym], acc1)
        ELSE acc1

RECURSIVE ancestorsImpl(_, _)
ancestorsImpl(sym, acc0) ==
    LET acc1 == Append(acc0, sym) \o mixins[sym]
    IN  IF superClass[sym] # NoSymbol
        THEN ancestorsImpl(superClass[sym], acc1)
        ELSE acc1

ancestors(receiver) == ancestorsImpl(receiver, <<>>)

\* ------------------------------------------------------------------ inputs
SuperChoices(s) ==
    IF s \in ClassSyms
    THEN {NoSymbol} \cup {t \in ClassSyms : SymRank[t] + 1 = SymRank[s]}
    ELSE {NoSymbol} \cup {t \in ModuleSyms : SymRank[t] < SymRank[s]}

MixinChoices(s) ==
    CASE s \in {"B", "C"} -> SeqsUpTo(ModuleSyms, MaxMixins)
      [] s = "A" -> SeqsUpTo(ModuleSyms, 1)
      [] OTHER -> SeqsUpTo({t \in ModuleSyms : SymRank[t] < SymRank[s]}, 1)

NoMembers == [s \in AllSyms |-> {}]
NoDispatch == <<>>
NoType == [tag |-> "None"]

ResultsInit ==
    /\ op = "init"
    /\ recvSym = NoSymbol
    /\ recvType = NoType
    /\ callArg = NoDispatch
    /\ acc = <<>>
    /\ similar = <<>>
    /\ deduped = <<>>
    /\ items = <<>>
    /\ processed = <<>>
    /\ sortIdx = 0
    /\ fault = "none"

\* Hierarchies for the linearizer: the superclass chains over A, B and C, a
\* module that may derive from another, lists of mixins within the bounds,
\* before and after the resolver has finalized the linearization.
InitLin ==
    /\ \E sb \in SuperChoices("B"), sc \in SuperChoices("C"),
          sm \in SuperChoices("M") :
          superClass = [s \in AllSyms |->
                           CASE s = "B" -> sb [] s = "C" -> sc [] s = "M" -> sm
                             [] OTHER -> NoSymbol]
    /\ \E ma \in MixinChoices("A"), mb \in MixinChoices("B"),
          mc \in MixinChoices("C"), mm \in MixinChoices("M") :
          mixins = [s \in AllSyms |->
                       CASE s = "A" -> ma [] s = "B" -> mb [] s = "C" -> mc
                         [] s = "M" -> mm [] OTHER -> <<>>]
    /\ linearized \in {AllSyms, {}}
    /\ owner = [s \in AllSyms |-> Root]
    /\ members = NoMembers
    /\ prefix = <<>>
    /\ dispatchResult = NoDispatch
    /\ ResultsInit

Ancestors(s) ==
    /\ op = "init"
    /\ op' = "ancestors"
    /\ recvSym' = s
    /\ IF ancestorsEnforceFails(s)
       THEN /\ fault' = "linearization"
            /\ acc' = <<>>
       ELSE /\ fault' = "none"
            /\ acc' = ancestors(s)
    /\ recvType' = NoType
    /\ similar' = <<>>
    /\ UNCHANGED <<gsVars, prefix, dispatchResult, callArg,
                   deduped, items, processed, sortIdx>>

NextLin == \E s \in Syms : Ancestors(s)

SpecLin == InitLin /\ [][NextLin]_vars

\* ---------------------------------------------------------------- C1
RECURSIVE LinearOrder(_)
LinearOrder(s) ==
    <<s>> \o mixins[s] \o
    (IF superClass[s] # NoSymbol THEN LinearOrder(superClass[s]) ELSE <<>>)

\* C1: when the linearization is finalized, ancestors(s) returns s first,
\* then the mixins of s in declaration order, then (only if s has a
\* superclass) the whole of ancestors(superclass(s)); the mixins and the
\* superclass of a mixin are not expanded.
C1_AncestorsOrder ==
    (op = "ancestors" /\ fault = "none") =>
        /\ acc = LinearOrder(recvSym)
        /\ acc[1] = recvSym
        /\ SubSeq(acc, 2, 1 + Len(mixins[recvSym])) = mixins[recvSym]
        /\ Len(acc) = 1 + Len(mixins[recvSym])
                      + (IF superClass[recvSym] # NoSymbol
                         THEN Len(LinearOrder(superClass[recvSym])) ELSE 0)

\* a class with a superclass mixes in a module that has a mixin of its own
C1_Witness ==
    /\ op = "ancestors" /\ fault = "none"
    /\ superClass[recvSym] # NoSymbol
    /\ \E i \in 1..Len(mixins[recvSym]) : mixins[mixins[recvSym][i]] # <<>>
    /\ Len(acc) >= 4

\* ------------------------------------------------------------------- names
\* A string is the sequence of its characters; a character is its code.
RECURSIVE StrLess(_, _)
StrLess(a, b) ==
    IF b = <<>> THEN FALSE
    ELSE IF a = <<>> THEN TRUE
    ELSE IF Head(a) # Head(b) THEN Head(a) < Head(b)
    ELSE StrLess(Tail(a), Tail(b))

StartsWith(s, p) == Len(p) <= Len(s) /\ SubSeq(s, 1, Len(p)) = p

Utf8Name(t) == [kind |-> "UTF8", unique |-> "None", text |-> t]
UniqueName(u, t) == [kind |-> "UNIQUE", unique |-> u, text |-> t]
ConstantName(t) == [kind |-> "CONSTANT", unique |-> "None", text |-> t]

\* what Name::shortName shows: the text of the name, for a unique name the
\* text of the name it was made from
shortName(name) == name.text

MethodNames ==
    {Utf8Name(<<1, 2>>), Utf8Name(<<2, 1, 2>>), Utf8Name(<<2, 1>>),
     UniqueName("Overload", <<1, 2>>), UniqueName("MangleRename", <<1, 2>>)}
FieldNames == {ConstantName(<<1, 2>>)}
MemberNames == MethodNames \cup FieldNames
Prefixes == {<<1, 2>>, <<2>>}

NameRank(n) ==
    CASE n = Utf8Name(<<1, 2>>) -> 1
      [] n = Utf8Name(<<2, 1, 2>>) -> 2
      [] n = Utf8Name(<<2, 1>>) -> 3
      [] n = UniqueName("Overload", <<1, 2>>) -> 4
      [] n = UniqueName("MangleRename", <<1, 2>>) -> 5
      [] OTHER -> 6

\* The name-similarity oracle: the pattern occurs in the short name (true for
\* every name that starts with the pattern, and for some that do not).
hasSimilarName(name, pattern) ==
    \E i \in 0..(Len(shortName(name)) - Len(pattern)) :
        SubSeq(shortName(name), i + 1, i + Len(pattern)) = pattern

\* ---------------------------------------------------------- member symbols
MemberSym(o, n) == [owner |-> o, name |-> n, isMethod |-> n.kind # "CONSTANT"]
MemberOwners == {"A", "B", "M"}
\* the member symbols a symbol table can hold: every method name in the
\* classes A and B, two of them in the module M, a static field in A
MemberUniverse ==
    {MemberSym(o, n) : o \in {"A", "B"}, n \in MethodNames}
    \cup {MemberSym("M", n) : n \in {Utf8Name(<<1, 2>>), Utf8Name(<<2, 1>>)}}
    \cup {MemberSym("A", n) : n \in FieldNames}

\* SymbolRef::_id of a member symbol: its index in the symbol table, which
\* follows neither the owners nor the names
MethodId(m) == ((SymRank[m.owner] * 8 + NameRank(m.name)) * 5) % 47

RECURSIVE SubsetsUpTo(_, _)
SubsetsUpTo(S, n) ==
    IF n = 0 THEN {{}}
    ELSE LET smaller == SubsetsUpTo(S, n - 1)
         IN  smaller \cup {T \cup {x} : T \in smaller, x \in S}

MembersOf(table, s) == {m \in table : m.owner = s}

\* ------------------------------------------- similarMethodsForClass (35-68)
NullType == [tag |-> "null"]
NullConstr == 0

SimilarMethod(depth, receiver, method) ==
    [depth |-> depth, receiver |-> receiver, method |-> method,
     receiverType |-> NullType, constr |-> NullConstr]

EmptyMap == [n \in {} |-> <<>>]

\* result[memberName].emplace_back(c): creates the list if it does not exist
EmplaceBack(result, name, c) ==
    (name :> ((IF name \in DOMAIN result THEN result[name] ELSE <<>>)
                 \o <<c>>)) @@ result

\* the matching members of one ancestor, each appended to the list of its name
RECURSIVE EmplaceAll(_, _, _, _)
EmplaceAll(result, hits, depth, receiver) ==
    IF hits = {} THEN result
    ELSE LET m == CHOOSE x \in hits : TRUE
         IN  EmplaceAll(EmplaceBack(result, m.name,
                                    SimilarMethod(depth, receiver, m)),
                        hits \ {m}, depth, receiver)

\* a walk whose depth counter counts from 0 before the first increment
RECURSIVE classWalkOffByOne(_, _, _, _, _)
classWalkOffByOne(receiver, pfx, anc, depth, result) ==
    IF anc = <<>> THEN result
    ELSE LET d == depth + 2
             hits == {m \in members[Head(anc)] :
                         m.isMethod /\ hasSimilarName(m.name, pfx)}
         IN  classWalkOffByOne(receiver, pfx, Tail(anc), d - 1,
                               EmplaceAll(result, hits, d, receiver))

\* a walk that records the ancestor it is at in place of the receiver
RECURSIVE classWalkRecordsAncestor(_, _, _, _, _)
classWalkRecordsAncestor(receiver, pfx, anc, depth, result) ==
    IF anc = <<>> THEN result
    ELSE LET d == depth + 1
             hits == {m \in members[Head(anc)] :
                         m.isMethod /\ hasSimilarName(m.name, pfx)}
         IN  classWalkRecordsAncestor(receiver, pfx, Tail(anc), d,
                                      EmplaceAll(result, hits, d, Head(anc)))

\* the loop over ancestors(gs, receiver): depth is incremented once per
\* ancestor, before its members are looked at
RECURSIVE classWalk(_, _, _, _, _)
classWalk(receiver, pfx, anc, depth, result) ==
    IF anc = <<>> THEN result
    ELSE LET d == depth + 1
             hits == {m \in members[Head(anc)] :
                         m.isMethod /\ hasSimilarName(m.name, pfx)}
         IN  classWalk(receiver, pfx, Tail(anc), d,
                       EmplaceAll(result, hits, d, receiver))

similarMethodsForClass(receiver, pfx) ==
    classWalk(receiver, pfx, ancestors(receiver), -1, EmptyMap)

\* ---------------------------------------------- mergeSimilarMethods (72-86)
\* a merge that keeps the names of the left map
mergeSimilarMethodsKeepLeft(left, right) ==
    [n \in DOMAIN left |->
        left[n] \o (IF n \in DOMAIN right THEN right[n] ELSE <<>>)]

\* for (auto similarMethod : list) result[name].emplace_back(similarMethod)
RECURSIVE emplaceEach(_, _, _)
emplaceEach(result, name, list) ==
    IF list = <<>> THEN result
    ELSE emplaceEach(EmplaceBack(result, name, Head(list)), name, Tail(list))

\* the loop over the entries of left
RECURSIVE mergeLoop(_, _, _, _)
mergeLoop(keys, left, right, result) ==
    IF keys = {} THEN result
    ELSE LET methodName == CHOOSE k \in keys : TRUE
         IN  mergeLoop(keys \ {methodName}, left, right,
                 IF methodName \in DOMAIN right
                 THEN emplaceEach(emplaceEach(result, methodName,
                                              left[methodName]),
                                  methodName, right[methodName])
                 ELSE result)

mergeSimilarMethods(left, right) ==
    mergeLoop(DOMAIN left, left, right, EmptyMap)

\* ---------------------------------------- similarMethodsForReceiver (88-103)
ClassType(s) == [tag |-> "ClassType", symbol |-> s]
AppliedType(s) == [tag |-> "AppliedType", klass |-> s]
AndType(l, r) == [tag |-> "AndType", left |-> l, right |-> r]
OrType(l, r) == [tag |-> "OrType", left |-> l, right |-> r]
ProxyType(u) == [tag |-> "ProxyType", underlying |-> u]
Untyped == [tag |-> "Untyped"]

RECURSIVE similarMethodsForReceiver(_, _)
similarMethodsForReceiver(receiver, pfx) ==
    CASE receiver.tag = "ClassType" ->
            similarMethodsForClass(receiver.symbol, pfx)
      [] receiver.tag = "AppliedType" ->
            similarMethodsForClass(receiver.klass, pfx)
      [] receiver.tag = "AndType" ->
            mergeSimilarMethods(similarMethodsForReceiver(receiver.left, pfx),
                                similarMethodsForReceiver(receiver.right, pfx))
      [] receiver.tag = "ProxyType" ->
            similarMethodsForReceiver(receiver.underlying, pfx)
      [] OTHER -> EmptyMap

\* ------------------------------------------------- inputs of the type walk
ClassTypes == {ClassType(s) : s \in MemberOwners}
AndTypes ==
    {AndType(ClassType("A"), ClassType("B")),
     AndType(ClassType("B"), ClassType("M")),
     AndType(ClassType("M"), ClassType("A")),
     AndType(ClassType("A"), ClassType("A"))}
ReceiverTypes ==
    ClassTypes \cup AndTypes
    \cup {AppliedType("B"), ProxyType(ClassType("B")),
          ProxyType(AndType(ClassType("A"), ClassType("M"))),
          AndType(AndType(ClassType("A"), ClassType("M")), ClassType("B")),
          AndType(ClassType("B"), OrType(ClassType("A"), ClassType("B"))),
          OrType(ClassType("A"), ClassType("B")), Untyped}

\* Symbol tables for the candidate search: B may derive from A, A may mix
\* in M once and B up to MaxMixins times, and at most MaxMembers member
\* symbols exist in all.
InitTable ==
    /\ \E sb \in SuperChoices("B") :
          superClass = [s \in AllSyms |-> IF s = "B" THEN sb ELSE NoSymbol]
    /\ \E ma \in SeqsUpTo({"M"}, 1), mb \in SeqsUpTo({"M"}, MaxMixins) :
          mixins = [s \in AllSyms |->
                       CASE s = "A" -> ma [] s = "B" -> mb [] OTHER -> <<>>]
    /\ linearized = AllSyms
    /\ owner = [s \in AllSyms |-> Root]
    /\ \E table \in SubsetsUpTo(MemberUniverse, MaxMembers) :
          members = [s \in AllSyms |-> MembersOf(table, s)]
    /\ prefix \in Prefixes

InitType ==
    /\ InitTable
    /\ dispatchResult = NoDispatch
    /\ ResultsInit

SimilarMethodsForClass(s) ==
    /\ op = "init"
    /\ op' = "similarMethodsForClass"
    /\ recvSym' = s
    /\ similar' = similarMethodsForClass(s, prefix)
    /\ fault' = "none"
    /\ recvType' = NoType
    /\ acc' = <<>>
    /\ UNCHANGED <<gsVars, prefix, dispatchResult, callArg,
                   deduped, items, processed, sortIdx>>

SimilarMethodsForReceiver(t) ==
    /\ op = "init"
    /\ op' = "similarMethodsForReceiver"
    /\ recvType' = t
    /\ similar' = similarMethodsForReceiver(t, prefix)
    /\ fault' = "none"
    /\ recvSym' = NoSymbol
    /\ acc' = <<>>
    /\ UNCHANGED <<gsVars, prefix, dispatchResult, callArg,
                   deduped, items, processed, sortIdx>>

NextType ==
    \/ \E s \in MemberOwners : SimilarMethodsForClass(s)
    \/ \E t \in ReceiverTypes : SimilarMethodsForReceiver(t)

SpecType == InitType /\ [][NextType]_vars


\* ---------------------------------------------------------------- C2
\* the places (list, index) at which a map reports the method m
Reports(map, m) ==
    UNION {{<<n, k>> : k \in {j \in 1..Len(map[n]) : map[n][j].method = m}} :
              n \in DOMAIN map}

SimilarMembers(pfx) ==
    {m \in MemberUniverse :
        m \in members[m.owner] /\ m.isMethod /\ hasSimilarName(m.name, pfx)}

\* C2: a method with a name similar to the prefix that is a direct member of
\* exactly one element of ancestors(C) is reported by similarMethods(C, p)
\* exactly once, in the list of its name, with depth equal to the number of
\* elements of ancestors(C) before its declaring ancestor (0 for C itself).
C2_DepthIsHops ==
    (op = "similarMethodsForClass") =>
        \A m \in SimilarMembers(prefix) :
            LET anc == LinearOrder(recvSym)
                at == {i \in 1..Len(anc) : anc[i] = m.owner}
            IN  Cardinality(at) = 1 =>
                  /\ Cardinality(Reports(similar, m)) = 1
                  /\ m.name \in DOMAIN similar
                  /\ \E k \in 1..Len(similar[m.name]) :
                        /\ similar[m.name][k].method = m
                        /\ similar[m.name][k].depth + 1 \in at
                        /\ (m.owner = recvSym =>
                               similar[m.name][k].depth = 0)

\* a method of the superclass is found behind the class and its mixin
C2_Witness ==
    /\ op = "similarMethodsForClass"
    /\ \E n \in DOMAIN similar : \E k \in 1..Len(similar[n]) :
          /\ similar[n][k].depth = 2
          /\ similar[n][k].method.owner = superClass[recvSym]
          /\ Cardinality({i \in 1..Len(LinearOrder(recvSym)) :
                LinearOrder(recvSym)[i] = superClass[recvSym]}) = 1
    /\ \E n \in DOMAIN similar : \E k \in 1..Len(similar[n]) :
          similar[n][k].depth = 0

\* ---------------------------------------------------------------- C3
NamesOf(t, pfx) == DOMAIN similarMethodsForReceiver(t, pfx)

\* C3: the names of similarForType(AndType(L, R), p) are exactly the names
\* that both similarForType(L, p) and similarForType(R, p) have, and the
\* list of each kept name is the list of L followed by the list of R, no
\* candidate removed; a name that only L has yields no candidates.
C3_AndTypeIntersects ==
    (op = "similarMethodsForReceiver" /\ recvType.tag = "AndType") =>
        LET l == similarMethodsForReceiver(recvType.left, prefix)
            r == similarMethodsForReceiver(recvType.right, prefix)
        IN  /\ \A n \in MethodNames :
                  n \in DOMAIN similar <=> (n \in DOMAIN l /\ n \in DOMAIN r)
            /\ \A n \in DOMAIN similar :
                  /\ Len(similar[n]) = Len(l[n]) + Len(r[n])
                  /\ SubSeq(similar[n], 1, Len(l[n])) = l[n]
                  /\ SubSeq(similar[n], Len(l[n]) + 1, Len(similar[n])) = r[n]
            /\ \A n \in DOMAIN l \ DOMAIN r : n \notin DOMAIN similar

\* L and R share one name whose lists are concatenated, L alone has another
C3_Witness ==
    /\ op = "similarMethodsForReceiver" /\ recvType.tag = "AndType"
    /\ \E n \in DOMAIN similar : Len(similar[n]) >= 2
    /\ NamesOf(recvType.left, prefix) \ NamesOf(recvType.right, prefix) # {}
    /\ recvType.left # recvType.right

Link(t, c, k) == [receiver |-> t, constr |-> c, secondaryKind |-> k]

\* the two ENFORCEs of the stamping loop
StampFaults(map) ==
    \E n \in DOMAIN map : \E k \in 1..Len(map[n]) :
        map[n][k].receiverType # NullType \/ map[n][k].constr # NullConstr

\* the stamping loop over every candidate of result
Stamp(map, receiver, constr) ==
    [n \in DOMAIN map |->
        [k \in 1..Len(map[n]) |->
            [map[n][k] EXCEPT !.receiverType = receiver, !.constr = constr]]]

\* a merger that stamps after the secondary results are merged in
RECURSIVE allSimilarMethodsStampLate(_, _, _)
allSimilarMethodsStampLate(links, i, pfx) ==
    LET result == similarMethodsForReceiver(links[i].receiver, pfx)
        rest == allSimilarMethodsStampLate(links, i + 1, pfx)
        merged == IF i < Len(links)
                  THEN mergeSimilarMethods(result, rest.map)
                  ELSE result
    IN  [map |-> Stamp(merged, links[i].receiver, links[i].constr),
         fault |-> StampFaults(merged) \/ (i < Len(links) /\ rest.fault)]

\* a merger that never looks at the secondary link
allSimilarMethodsMainOnly(links, i, pfx) ==
    [map |-> Stamp(similarMethodsForReceiver(links[i].receiver, pfx),
                   links[i].receiver, links[i].constr),
     fault |-> FALSE]

\* allSimilarMethods on link i of the chain: the mapping it returns and
\* whether one of its ENFORCEs fired
RECURSIVE allSimilarMethods(_, _, _)
allSimilarMethods(links, i, pfx) ==
    LET result == similarMethodsForReceiver(links[i].receiver, pfx)
        stamped == Stamp(result, links[i].receiver, links[i].constr)
        rest == allSimilarMethods(links, i + 1, pfx)
    IN  IF i < Len(links)
        THEN [map |-> mergeSimilarMethods(stamped, rest.map),
              fault |-> StampFaults(result) \/ rest.fault]
        ELSE [map |-> stamped, fault |-> StampFaults(result)]

\* a move that reaches the main link only
ConstrMovedOutMainOnly(links) ==
    [i \in 1..Len(links) |->
        IF i = 1 THEN [links[i] EXCEPT !.constr = NullConstr] ELSE links[i]]

\* constr = move(dispatchResult.main.constr), on every link that is walked
ConstrMovedOut(links) ==
    [i \in 1..Len(links) |-> [links[i] EXCEPT !.constr = NullConstr]]

\* ------------------------------------------------------ ranking (261-308)
isMangleRename(name) == name.kind = "UNIQUE" /\ name.unique = "MangleRename"

\* comparator of the sort of each list (262-268)
listLess(left, right) ==
    IF left.depth # right.depth
    THEN left.depth < right.depth
    ELSE MethodId(left.method) < MethodId(right.method)

\* a dedup that takes the first candidate of the unsorted list
fastSortFirstUnsorted(list) == {list[1]}

\* What similarMethods[0] can be after fast_sort: fast_sort leaves candidates
\* that compare equal in any order, so every least candidate may come first.
fastSortFirst(list) ==
    {list[i] : i \in {j \in 1..Len(list) :
                        \A k \in 1..Len(list) : ~listLess(list[k], list[j])}}

\* a comparator without the final tie-break on the method identity
finalLessNoId(left, right) ==
    IF left.depth # right.depth
    THEN left.depth < right.depth
    ELSE LET l == shortName(left.method.name)
             r == shortName(right.method.name)
         IN  IF l # r
             THEN IF StartsWith(l, prefix) /\ ~StartsWith(r, prefix) THEN TRUE
                  ELSE IF ~StartsWith(l, prefix) /\ StartsWith(r, prefix)
                       THEN FALSE
                       ELSE StrLess(l, r)
             ELSE FALSE

\* a comparator without the boost of the names that start with the prefix
finalLessNoBoost(left, right) ==
    IF left.depth # right.depth
    THEN left.depth < right.depth
    ELSE LET l == shortName(left.method.name)
             r == shortName(right.method.name)
         IN  IF l # r
             THEN StrLess(l, r)
             ELSE MethodId(left.method) < MethodId(right.method)

\* comparator of the sort of deduped (284-303)
finalLess(left, right) ==
    IF left.depth # right.depth
    THEN left.depth < right.depth
    ELSE LET leftShortName == shortName(left.method.name)
             rightShortName == shortName(right.method.name)
         IN  IF leftShortName # rightShortName
             THEN IF StartsWith(leftShortName, prefix)
                     /\ ~StartsWith(rightShortName, prefix) THEN TRUE
                  ELSE IF ~StartsWith(leftShortName, prefix)
                          /\ StartsWith(rightShortName, prefix) THEN FALSE
                  ELSE StrLess(leftShortName, rightShortName)
             ELSE MethodId(left.method) < MethodId(right.method)

\* the orders in which a set can be iterated
RECURSIVE Orders(_)
Orders(S) ==
    IF S = {} THEN {<<>>}
    ELSE UNION {{<<x>> \o o : o \in Orders(S \ {x})} : x \in S}

\* The vector deduped before it is sorted (271-282): the map is iterated in
\* an unspecified order, rename-mangled names are skipped, and the first
\* candidate of every other list is taken.
RECURSIVE dedupLoop(_, _)
dedupLoop(map, order) ==
    IF order = <<>> THEN {<<>>}
    ELSE UNION {{<<first>> \o rest : rest \in dedupLoop(map, Tail(order))} :
                   first \in fastSortFirst(map[Head(order)])}

DedupedVectors(map) ==
    LET keep == {n \in DOMAIN map : ~isMangleRename(n)}
    IN  UNION {dedupLoop(map, order) : order \in Orders(keep)}

\* What fast_sort(deduped, finalLess) can leave: every arrangement of the
\* vector in which no candidate is behind one it is less than.
RECURSIVE SortsOf(_, _)
SortsOf(vector, rest) ==
    IF rest = {} THEN {<<>>}
    ELSE UNION {{<<vector[i]>> \o s : s \in SortsOf(vector, rest \ {i})} :
                   i \in {j \in rest :
                             \A k \in rest : ~finalLess(vector[k], vector[j])}}

FinalSorts(vector) == SortsOf(vector, 1..Len(vector))

\* ------------------------------------------ getCompletionItem (160-206)
RECURSIVE Digits(_)
Digits(n) == IF n < 10 THEN <<n>> ELSE Append(Digits(n \div 10), n % 10)

SortTextWidth == 6

\* fmt::format("{:06d}", sortIdx): at least six digits, zero-padded
Format06d(n) ==
    LET d == Digits(n)
    IN  IF Len(d) >= SortTextWidth THEN d
        ELSE [i \in 1..(SortTextWidth - Len(d)) |-> 0] \o d

getCompletionItem(what, receiverType, constraint, idx) ==
    [label |-> shortName(what.name),
     sortText |-> Format06d(idx),
     kind |-> what.kind,
     what |-> what.sym,
     receiverType |-> receiverType,
     constraint |-> constraint]

\* items.push_back(getCompletionItem(..., items.size())) for each of deduped
RECURSIVE pushMethodItems(_, _)
pushMethodItems(its, vector) ==
    IF vector = <<>> THEN its
    ELSE LET c == Head(vector)
         IN  pushMethodItems(
                 Append(its, getCompletionItem(
                     [name |-> c.method.name, kind |-> "Method",
                      sym |-> c.method],
                     c.receiverType, c.constr, Len(its))),
                 Tail(vector))

\* ------------------------------ handleTextDocumentCompletion, send (256-308)
\* receivers of the links: A itself, a class two hops below A, and an
\* intersection of A with the module
LinkTypes ==
    {ClassType("A"), ClassType("B"), AndType(ClassType("M"), ClassType("A"))}

SecondaryKinds(k) == IF k = 1 THEN {"AND"} ELSE {"AND", "OR"}

Chains ==
    UNION {{[i \in 1..k |-> Link(f[i], i, kind)] :
               f \in [1..k -> LinkTypes], kind \in SecondaryKinds(k)} :
              k \in 1..MaxChain}

\* the methods a symbol table can hold when a send is completed: every
\* method name in A, one in B that A has too, one in M that A has too
MethodUniverse ==
    {MemberSym("A", n) : n \in MethodNames}
    \cup {MemberSym("B", Utf8Name(<<2, 1, 2>>)),
          MemberSym("M", Utf8Name(<<1, 2>>))}

\* the prefix under which every method name is similar, two of them by
\* starting with it
SendPrefixes == {<<2>>}

\* Queries of a method call: B derives from A and mixes in M, at most
\* MaxMembers methods exist, and every link carries a constraint of its own.
InitSend ==
    /\ superClass = [s \in AllSyms |-> IF s = "B" THEN "A" ELSE NoSymbol]
    /\ mixins = [s \in AllSyms |-> IF s = "B" THEN <<"M">> ELSE <<>>]
    /\ linearized = AllSyms
    /\ owner = [s \in AllSyms |-> Root]
    /\ \E table \in SubsetsUpTo(MethodUniverse, MaxMembers) :
          members = [s \in AllSyms |-> MembersOf(table, s)]
    /\ prefix \in SendPrefixes
    /\ dispatchResult \in Chains
    /\ ResultsInit

CompletionSend ==
    /\ LET all == allSimilarMethods(dispatchResult, 1, prefix)
       IN  /\ similar' = all.map
           /\ fault' = IF all.fault THEN "overwrite" ELSE "none"
           /\ deduped' \in UNION {FinalSorts(vector) :
                                    vector \in DedupedVectors(all.map)}
           /\ items' = pushMethodItems(<<>>, deduped')
    /\ callArg' = dispatchResult
    /\ dispatchResult' = ConstrMovedOut(dispatchResult)
    /\ op' = "completionSend"
    /\ UNCHANGED <<gsVars, prefix, recvSym, recvType, acc, processed, sortIdx>>

NextSend == CompletionSend

Spec == InitSend /\ [][NextSend]_vars

\* ---------------------------------------------------------------- C4
\* C4: a method name is in allSimilar(dispatchResult, p) if and only if it is
\* in similarForType(receiver, p) of every link of the chain, whatever the
\* connective of the chain; a name that only some links have is left out.
C4_ChainIntersects ==
    (op = "completionSend") =>
        \A n \in MethodNames :
            n \in DOMAIN similar <=>
                \A i \in 1..Len(callArg) :
                    n \in NamesOf(callArg[i].receiver, prefix)

\* a union chain of two links: one name on both links, one on main alone
C4_Witness ==
    /\ op = "completionSend"
    /\ Len(callArg) = 2 /\ callArg[1].secondaryKind = "OR"
    /\ DOMAIN similar # {}
    /\ NamesOf(callArg[1].receiver, prefix)
          \ NamesOf(callArg[2].receiver, prefix) # {}

\* ---------------------------------------------------------------- C10
\* the candidates of link i for the name n, as link i stamps them
LinkList(links, i, n, pfx) ==
    LET map == similarMethodsForReceiver(links[i].receiver, pfx)
    IN  IF n \in DOMAIN map
        THEN [k \in 1..Len(map[n]) |->
                 [depth |-> map[n][k].depth, receiver |-> map[n][k].receiver,
                  method |-> map[n][k].method,
                  receiverType |-> links[i].receiver,
                  constr |-> links[i].constr]]
        ELSE <<>>

RECURSIVE ChainList(_, _, _, _)
ChainList(links, i, n, pfx) ==
    IF i > Len(links) THEN <<>>
    ELSE LinkList(links, i, n, pfx) \o ChainList(links, i + 1, n, pfx)

\* C10: every candidate of the mapping that allSimilar returns carries the
\* receiver and the constraint of the one link whose type walk produced it,
\* also after the results of main and secondary are merged, and the
\* overwrite-of-non-null fault never fires.
C10_StampedOnce ==
    (op = "completionSend") =>
        /\ fault = "none"
        /\ \A n \in DOMAIN similar :
              similar[n] = ChainList(callArg, 1, n, prefix)

\* a name with candidates of two links that differ in receiver and constraint
C10_Witness ==
    /\ op = "completionSend" /\ Len(callArg) = 2
    /\ callArg[1].receiver # callArg[2].receiver
    /\ callArg[1].constr # NullConstr
    /\ \E n \in DOMAIN similar :
          /\ similar[n][1].receiverType = callArg[1].receiver
          /\ similar[n][1].constr = callArg[1].constr
          /\ similar[n][Len(similar[n])].receiverType = callArg[2].receiver
          /\ similar[n][Len(similar[n])].constr = callArg[2].constr

Elems(list) == {list[k] : k \in 1..Len(list)}

\* C5: the output has exactly one record for each name of the mapping that
\* is not rename-mangled and none for a rename-mangled name; the record of a
\* name is a candidate of minimum depth of the list of that name, of the
\* smallest method identity among those of minimum depth.
C5_DedupKeepsNearest ==
    (op = "completionSend") =>
        /\ Len(items) = Len(deduped)
        /\ \A i \in 1..Len(items) :
              /\ items[i].what = deduped[i].method
              /\ items[i].what.name \in DOMAIN similar
        /\ \A n \in DOMAIN similar :
              LET recs == {i \in 1..Len(items) : items[i].what.name = n}
              IN  IF isMangleRename(n)
                  THEN recs = {}
                  ELSE /\ Cardinality(recs) = 1
                       /\ \A i \in recs :
                            /\ deduped[i] \in Elems(similar[n])
                            /\ \A c \in Elems(similar[n]) :
                                  \/ deduped[i].depth < c.depth
                                  \/ /\ deduped[i].depth = c.depth
                                     /\ MethodId(deduped[i].method)
                                           <= MethodId(c.method)

\* a rename-mangled name is dropped and a name found at two depths is kept
\* once, although its list starts with the farther candidate
C5_Witness ==
    /\ op = "completionSend"
    /\ \E n \in DOMAIN similar : isMangleRename(n)
    /\ \E n \in DOMAIN similar :
          /\ ~isMangleRename(n)
          /\ \E c \in Elems(similar[n]) : c.depth < similar[n][1].depth
    /\ Len(items) = 1

\* ---------------------------------------------------------------- C6
\* C6: no two distinct candidates of deduped compare equal under the final
\* comparator, so whatever the order in which the mapping is iterated the
\* sort leaves the same sequence.
C6_StrictTotalOrder ==
    (op = "completionSend") =>
        /\ \A i, j \in 1..Len(deduped) :
              i # j => (finalLess(deduped[i], deduped[j])
                           # finalLess(deduped[j], deduped[i]))
        /\ \A order \in Orders(1..Len(deduped)) :
              FinalSorts([i \in 1..Len(deduped) |-> deduped[order[i]]])
                 = {deduped}

\* two names with the same depth and the same short name are in the output
C6_Witness ==
    /\ op = "completionSend"
    /\ \E i, j \in 1..Len(deduped) :
          /\ i # j
          /\ deduped[i].depth = deduped[j].depth
          /\ shortName(deduped[i].method.name)
                = shortName(deduped[j].method.name)
    /\ Len(deduped) = 3

\* ---------------------------------------------------------------- C7
\* the rank key of a candidate is smaller than that of another
KeyBefore(a, b) ==
    LET an == shortName(a.method.name)
        bn == shortName(b.method.name)
        ap == StartsWith(an, prefix)
        bp == StartsWith(bn, prefix)
    IN  \/ a.depth < b.depth
        \/ a.depth = b.depth /\ ap /\ ~bp
        \/ a.depth = b.depth /\ ap = bp /\ StrLess(an, bn)
        \/ a.depth = b.depth /\ ap = bp /\ an = bn
              /\ MethodId(a.method) < MethodId(b.method)

\* C7: of two records of the output the earlier has the smaller key under
\* depth, then names that start with the prefix first, then the raw name
\* in alphabetical order, then the method identity.
C7_RankOrder ==
    (op = "completionSend") =>
        \A i, j \in 1..Len(items) :
            i < j =>
              /\ KeyBefore(deduped[i], deduped[j])
              /\ items[i].what = deduped[i].method
              /\ items[j].what = deduped[j].method

\* a nearer candidate precedes a farther one of an alphabetically smaller
\* name, and a name that starts with the prefix precedes an alphabetically
\* smaller one that does not
C7_Witness ==
    /\ op = "completionSend"
    /\ \E i, j \in 1..Len(items) :
          /\ i < j /\ deduped[i].depth < deduped[j].depth
          /\ StrLess(items[j].label, items[i].label)
    /\ \E i, j \in 1..Len(items) :
          /\ i < j /\ deduped[i].depth = deduped[j].depth
          /\ StrLess(items[j].label, items[i].label)
          /\ StartsWith(items[i].label, prefix)
          /\ ~StartsWith(items[j].label, prefix)


\* ------------------------------------ findSimilarConstantOrIdent (208-227)
ClassName(s) ==
    ConstantName(CASE s = "A" -> <<1>> [] s = "B" -> <<1, 1>>
                   [] s = "C" -> <<2, 1>> [] s = "M" -> <<1, 2, 1>>
                   [] s = "N" -> <<2>> [] OTHER -> <<3>>)

\* a class or module as a member of its owner
ClassWhat(s) ==
    [name |-> ClassName(s), kind |-> "Class",
     sym |-> [owner |-> owner[s], name |-> ClassName(s), isMethod |-> FALSE]]
MemberWhat(m) ==
    [name |-> m.name, kind |-> IF m.isMethod THEN "Method" ELSE "Constant",
     sym |-> m]

\* every member of an owner: the classes and modules nested in it and its
\* methods and static fields
AllMembers(o) ==
    {ClassWhat(s) : s \in {t \in Syms : owner[t] = o}}
    \cup {MemberWhat(m) : m \in members[o]}

\* membersStableOrderSlow: the members in the order of their names
RECURSIVE membersStableOrderSlow(_)
membersStableOrderSlow(set) ==
    IF set = {} THEN <<>>
    ELSE LET first == CHOOSE x \in set : \A y \in set :
                          ~StrLess(shortName(y.name), shortName(x.name))
         IN  <<first>> \o membersStableOrderSlow(set \ {first})

\* the loop over the members of one owner (216-224)
RECURSIVE pushConstantItems(_, _, _, _)
pushConstantItems(its, list, pattern, receiverType) ==
    IF list = <<>> THEN its
    ELSE LET sym == Head(list)
             keep == /\ sym.kind \in {"Class", "Constant"}
                     /\ sym.name.kind = "CONSTANT"
                     /\ hasSimilarName(sym.name, pattern)
         IN  pushConstantItems(
                 IF keep
                 THEN Append(its, getCompletionItem(sym, receiverType,
                                                    NullConstr, Len(its)))
                 ELSE its,
                 Tail(list), pattern, receiverType)

\* a loop that starts at the class itself
RECURSIVE constantLoopFromSelf(_, _, _, _)
constantLoopFromSelf(cur, pattern, receiverType, st) ==
    LET st1 == [items |-> pushConstantItems(st.items,
                              membersStableOrderSlow(AllMembers(cur)),
                              pattern, receiverType),
                processed |-> Append(st.processed, cur)]
    IN  IF cur # Root
        THEN constantLoopFromSelf(owner[cur], pattern, receiverType, st1)
        ELSE st1

\* do { owner = owner.data(gs)->owner; ... } while (owner != root)
RECURSIVE constantLoop(_, _, _, _)
constantLoop(cur, pattern, receiverType, st) ==
    LET next == owner[cur]
        st1 == [items |-> pushConstantItems(st.items,
                              membersStableOrderSlow(AllMembers(next)),
                              pattern, receiverType),
                processed |-> Append(st.processed, next)]
    IN  IF next # Root
        THEN constantLoop(next, pattern, receiverType, st1)
        ELSE st1

findSimilarConstantOrIdent(receiverType, its) ==
    IF receiverType.tag = "ClassType"
    THEN constantLoop(receiverType.symbol,
                      shortName(ClassName(receiverType.symbol)),
                      receiverType, [items |-> its, processed |-> <<>>])
    ELSE [items |-> its, processed |-> <<>>]

\* -------------------- handleTextDocumentCompletion, ident/constant (309-313)
OwnerChoices(s) ==
    CASE s = "M" -> {Root, "A"}
      [] s \in {"B", "C"} ->
            {Root} \cup {t \in ClassSyms : SymRank[t] < SymRank[s]}
      [] OTHER -> {Root}

ConstantMembers(o) ==
    IF o \in {Root, "A"}
    THEN SUBSET {MemberSym(o, ConstantName(<<1, 2>>)),
                 MemberSym(o, Utf8Name(<<2, 2>>))}
    ELSE {{}}

ConstantReceivers ==
    {ClassType(s) : s \in AllSyms}
    \cup {AppliedType("B"), AndType(ClassType("A"), ClassType("B")), Untyped}

\* Symbol tables for the constant finder: classes nested in each other below
\* the root namespace, which is its own owner; static fields and methods in
\* the root namespace and in A.
InitConstant ==
    /\ superClass = [s \in AllSyms |-> NoSymbol]
    /\ mixins = [s \in AllSyms |-> <<>>]
    /\ linearized = AllSyms
    /\ \E ob \in OwnerChoices("B"), oc \in OwnerChoices("C"),
          om \in OwnerChoices("M") :
          owner = [s \in AllSyms |->
                      CASE s = "B" -> ob [] s = "C" -> oc [] s = "M" -> om
                        [] OTHER -> Root]
    /\ \E mr \in ConstantMembers(Root), ma \in ConstantMembers("A") :
          members = [s \in AllSyms |->
                        CASE s = Root -> mr [] s = "A" -> ma [] OTHER -> {}]
    /\ prefix = <<>>
    /\ dispatchResult = NoDispatch
    /\ ResultsInit

CompletionConstant(t) ==
    /\ op = "init"
    /\ LET found == findSimilarConstantOrIdent(t, <<>>)
       IN  /\ items' = found.items
           /\ processed' = found.processed
    /\ recvType' = t
    /\ op' = "completionConstant"
    /\ UNCHANGED <<gsVars, prefix, dispatchResult, recvSym, callArg, acc,
                   similar, deduped, sortIdx, fault>>

NextConstant == \E t \in ConstantReceivers : CompletionConstant(t)

SpecConstant == InitConstant /\ [][NextConstant]_vars

\* ---------------------------------------------------------------- C9
\* C9 as stated: the finder visits the lexical owner of the class first,
\* then each owner's owner, the root namespace exactly once and last, and
\* never the class itself, for every class symbol, the root namespace
\* included.
C9_OwnersNeverSelf ==
    (op = "completionConstant" /\ recvType.tag = "ClassType") =>
        /\ Len(processed) >= 1
        /\ processed[1] = owner[recvType.symbol]
        /\ \A i \in 1..(Len(processed) - 1) :
              processed[i + 1] = owner[processed[i]]
        /\ processed[Len(processed)] = Root
        /\ Cardinality({i \in 1..Len(processed) : processed[i] = Root}) = 1
        /\ recvType.symbol \notin Elems(processed)

\* C9 amended: as above, except that the root namespace, being its own
\* lexical owner, has its own members visited in its single iteration; the
\* members of every other class are never visited.
C9_OwnersToRoot ==
    (op = "completionConstant" /\ recvType.tag = "ClassType") =>
        /\ Len(processed) >= 1
        /\ processed[1] = owner[recvType.symbol]
        /\ \A i \in 1..(Len(processed) - 1) :
              processed[i + 1] = owner[processed[i]]
        /\ processed[Len(processed)] = Root
        /\ Cardinality({i \in 1..Len(processed) : processed[i] = Root}) = 1
        /\ (recvType.symbol # Root =>
               recvType.symbol \notin Elems(processed))
        /\ (recvType.symbol = Root => processed = <<Root>>)

\* a class nested two levels below the root namespace
C9_Witness ==
    /\ op = "completionConstant" /\ recvType.tag = "ClassType"
    /\ Len(processed) = 3
    /\ processed[1] # Root /\ processed[2] # Root /\ processed[3] = Root
    /\ Len(items) >= 2

\* ------------------------------------------- sort keys of the records (168)
KeyInputs ==
    (0..KeyWindow) \cup ((1000000 - KeyWindow)..(1000000 + KeyWindow))

InitKey ==
    /\ superClass = [s \in AllSyms |-> NoSymbol]
    /\ mixins = [s \in AllSyms |-> <<>>]
    /\ linearized = AllSyms
    /\ owner = [s \in AllSyms |-> Root]
    /\ members = NoMembers
    /\ prefix = <<>>
    /\ dispatchResult = NoDispatch
    /\ op = "init"
    /\ recvSym = NoSymbol
    /\ recvType = NoType
    /\ callArg = NoDispatch
    /\ acc = <<>>
    /\ similar = <<>>
    /\ deduped = <<>>
    /\ items = <<>>
    /\ processed = <<>>
    /\ sortIdx \in KeyInputs
    /\ fault = "none"

GetCompletionItem(what) ==
    /\ op = "init"
    /\ items' = <<getCompletionItem(what, NullType, NullConstr, sortIdx)>>
    /\ op' = "getCompletionItem"
    /\ UNCHANGED <<gsVars, prefix, dispatchResult, recvSym, recvType, callArg,
                   acc, similar, deduped, processed, sortIdx, fault>>

NextKey ==
    \E what \in {ClassWhat("A"), MemberWhat(MemberSym("A", Utf8Name(<<1, 2>>)))} :
        GetCompletionItem(what)

SpecKey == InitKey /\ [][NextKey]_vars

\* ---------------------------------------------------------------- C8
RECURSIVE DecimalValue(_)
DecimalValue(digits) ==
    IF digits = <<>> THEN 0
    ELSE 10 * DecimalValue(SubSeq(digits, 1, Len(digits) - 1))
         + digits[Len(digits)]

\* C8: the sortKey of the record of rank index i is exactly 6 decimal
\* digits, the zero-padded encoding of i, and for a rank index above 999999
\* it saturates at 999999.
C8_SortKeySixDigits ==
    (op = "getCompletionItem") =>
        /\ Len(items[1].sortText) = 6
        /\ (sortIdx <= 999999 => DecimalValue(items[1].sortText) = sortIdx)
        /\ (sortIdx > 999999 => items[1].sortText = <<9, 9, 9, 9, 9, 9>>)


====
